---- MODULE Spec2Model ----
(***************************************************************************)
(* SlideCast (src-tauri): request validation (core.rs), encoder argument   *)
(* synthesis and quality adjustment (core.rs), and the two command         *)
(* handlers that drive the external encoder (tauri_commands.rs):           *)
(* compose_video and build_slides_video_with_durations.                    *)
(*                                                                         *)
(* f64 values are modelled as fixed-point numbers in hundredths together   *)
(* with NaN; paths are sequences of components; a String that is built by  *)
(* pushing newline-terminated lines is the sequence of its lines.          *)
(***************************************************************************)
EXTENDS Integers, Sequences, FiniteSets, TLC

VARIABLES
    req,        \* CompositionRequest handed to the validator / compose_video
    vt_result,  \* value returned by a direct call of validate_timings
    vr_result,  \* value returned by a direct call of validate_request
    ffargs,     \* FfmpegArgs value (the Vec<String> behind args.0)
    q_before,   \* the argument list as it was handed to apply_quality
    quality,    \* QualityProfile handed to apply_quality
    dargs,      \* BuildSlidesVideoDurationsArgs
    pc,         \* position of the running handler
    result,     \* value returned by the handler (None while running)
    trace,      \* calls made to the Process Runner / filesystem, in order
    calls,      \* argument lists handed to Command::new(ffmpeg_path()).args(..)
    fs,         \* filesystem: path -> file
    fs0,        \* filesystem when the handler was entered
    tmp,        \* local `tmp` (segments directory)
    i,          \* loop index of the segment loop
    list        \* local `list` (manifest text, one element per pushed line)

vars == <<req, vt_result, vr_result, ffargs, q_before, quality, dargs, pc,
          result, trace, calls, fs, fs0, tmp, i, list>>

(***************************************************************************)
(* Bounds of the model.                                                    *)
(***************************************************************************)
MaxLen == 3       \* longest timing sequence handed to validate_timings
MaxReqLen == 2    \* longest timing sequence inside a request
MaxIdx == 2       \* largest slide_index drawn
MaxTime == 2      \* largest time_seconds drawn (whole seconds)
MaxArgs == 3      \* longest argument list handed to apply_quality directly
MaxSlides == 3    \* longest durations sequence

None == <<"None">>
Ok == <<"Ok">>
Err(e) == <<"Err", e>>

(***************************************************************************)
(* f64: hundredths, or NaN.  Comparisons with NaN are false, as in Rust.   *)
(***************************************************************************)
NaN == [nan |-> TRUE, v |-> 0]
F(x) == [nan |-> FALSE, v |-> x]
Secs(s) == F(100 * s)
Lt(a, b) == ~a.nan /\ ~b.nan /\ a.v < b.v
Le(a, b) == ~a.nan /\ ~b.nan /\ a.v <= b.v
Ge(a, b) == ~a.nan /\ ~b.nan /\ a.v >= b.v

(***************************************************************************)
(* Integer and float formatting (Display for u32 / i32 / usize / f64).     *)
(***************************************************************************)
Digits == <<"0", "1", "2", "3", "4", "5", "6", "7", "8", "9">>

RECURSIVE NatToString(_)
NatToString(n) ==
    IF n < 10 THEN Digits[n + 1]
    ELSE NatToString(n \div 10) \o Digits[(n % 10) + 1]

RECURSIVE PadLeft0(_, _)
PadLeft0(s, width) == IF Len(s) >= width THEN s ELSE PadLeft0("0" \o s, width)

\* format!("{:05}", n)
Pad5(n) == PadLeft0(NatToString(n), 5)

\* format!("{}", x) for an f64: shortest decimal, no trailing zeros, "NaN".
FormatF64(x) ==
    IF x.nan THEN "NaN"
    ELSE LET a == IF x.v < 0 THEN 0 - x.v ELSE x.v
             sign == IF x.v < 0 THEN "-" ELSE ""
             whole == a \div 100
             frac == a % 100
         IN  sign \o NatToString(whole) \o
             (IF frac = 0 THEN ""
              ELSE IF frac % 10 = 0 THEN "." \o Digits[(frac \div 10) + 1]
              ELSE "." \o Digits[(frac \div 10) + 1] \o Digits[(frac % 10) + 1])

(***************************************************************************)
(* domain.rs                                                               *)
(***************************************************************************)
OverlayPosition == {"TopLeft", "TopRight", "BottomLeft", "BottomRight"}
ForegroundKind == {"Slides", "Video"}
QualityProfile == {"Draft", "Standard", "High"}

SlideTiming(idx, t) == [slide_index |-> idx, time_seconds |-> t]

EmptyTimings == [kind |-> "EmptyTimings"]
NonIncreasingTimings == [kind |-> "NonIncreasingTimings"]
InvalidSlideIndices == [kind |-> "InvalidSlideIndices"]
OverlayWidthOutOfRange(w) == [kind |-> "OverlayWidthOutOfRange", value |-> w]

\* #[error("...")] Display of ValidationError
ErrorToString(e) ==
    CASE e.kind = "OverlayWidthOutOfRange" ->
            "overlay_relative_width must be within [0.05, 0.25], got "
                \o FormatF64(e.value)
      [] e.kind = "EmptyTimings" -> "timings must not be empty"
      [] e.kind = "NonIncreasingTimings" ->
            "timings must be strictly increasing by time"
      [] e.kind = "InvalidSlideIndices" ->
            "slide indices must start at 0 and be contiguous"

(***************************************************************************)
(* core.rs: validation                                                     *)
(***************************************************************************)
\* `expected_index as u32`: the identity on every index below 2^32, which is
\* beyond any sequence length the model (or TLC's integers) can reach.
AsU32(n) == n

\* validate_timings with the time comparison `w[0] < w[1]` replaced by `<=`
validate_timings_le(timings) ==
    IF Len(timings) = 0 THEN Err(EmptyTimings)
    ELSE IF \E k \in 1..Len(timings) : timings[k].slide_index # AsU32(k - 1)
         THEN Err(InvalidSlideIndices)
    ELSE IF \E k \in 1..(Len(timings) - 1) :
                ~Le(timings[k].time_seconds, timings[k + 1].time_seconds)
         THEN Err(NonIncreasingTimings)
    ELSE Ok

\* validate_timings without the slide_index loop
validate_timings_noidx(timings) ==
    IF Len(timings) = 0 THEN Err(EmptyTimings)
    ELSE IF \E k \in 1..(Len(timings) - 1) :
                ~Lt(timings[k].time_seconds, timings[k + 1].time_seconds)
         THEN Err(NonIncreasingTimings)
    ELSE Ok

\* validate_timings comparing only the first adjacent pair
validate_timings_first(timings) ==
    IF Len(timings) = 0 THEN Err(EmptyTimings)
    ELSE IF \E k \in 1..Len(timings) : timings[k].slide_index # AsU32(k - 1)
         THEN Err(InvalidSlideIndices)
    ELSE IF Len(timings) >= 2
            /\ ~Lt(timings[1].time_seconds, timings[2].time_seconds)
         THEN Err(NonIncreasingTimings)
    ELSE Ok

validate_timings(timings) ==
    IF Len(timings) = 0 THEN Err(EmptyTimings)
    ELSE IF \E k \in 1..Len(timings) : timings[k].slide_index # AsU32(k - 1)
         THEN Err(InvalidSlideIndices)
    ELSE IF \E k \in 1..(Len(timings) - 1) :
                ~Lt(timings[k].time_seconds, timings[k + 1].time_seconds)
         THEN Err(NonIncreasingTimings)
    ELSE Ok

MIN_WIDTH == 5     \* 0.05
MAX_WIDTH == 50    \* 0.5

\* validate_request with the upper bound test `<` instead of `<=`
validate_request_excl(r) ==
    IF ~(Ge(r.overlay_relative_width, F(MIN_WIDTH))
         /\ Lt(r.overlay_relative_width, F(MAX_WIDTH)))
    THEN Err(OverlayWidthOutOfRange(r.overlay_relative_width))
    ELSE validate_timings(r.timings)

validate_request(r) ==
    IF ~(Ge(r.overlay_relative_width, F(MIN_WIDTH))
         /\ Le(r.overlay_relative_width, F(MAX_WIDTH)))
    THEN Err(OverlayWidthOutOfRange(r.overlay_relative_width))
    ELSE validate_timings(r.timings)

(***************************************************************************)
(* core.rs: argument synthesis                                             *)
(***************************************************************************)
\* build_ffmpeg_args(main_video_path, overlay_video_path, output_path,
\*                   overlay_rel_w, position, foreground) -> FfmpegArgs.0
build_ffmpeg_args(main_video_path, overlay_video_path, output_path, overlay_rel_w, position, foreground) ==
    LET bg == IF foreground = "Video" THEN "1:v" ELSE "0:v"
        fg == IF foreground = "Video" THEN "0:v" ELSE "1:v"
        ox == IF position \in {"TopLeft", "BottomLeft"} THEN "16" ELSE "W-w-16"
        oy == IF position \in {"TopLeft", "TopRight"} THEN "16" ELSE "H-h-16"
        filter == "[" \o fg \o "]scale=1920*" \o FormatF64(overlay_rel_w)
                  \o ":-1[ov];[" \o bg
                  \o "]scale=1920:1080:flags=bicubic[bg];[bg][ov]overlay="
                  \o ox \o ":" \o oy \o ":eval=init,fps=30"
    IN  << "-y", "-hide_banner", "-loglevel", "warning",
           "-i", main_video_path, "-i", overlay_video_path,
           "-filter_complex", filter, "-map", "0:a?",
           "-c:v", "libx264", "-pix_fmt", "yuv420p", "-r", "30",
           "-s", "1920x1080", "-c:a", "aac", "-b:a", "192k",
           "-shortest", "-movflags", "+faststart", output_path >>

CRF_DRAFT == 32
CRF_STANDARD == 26
CRF_HIGH == 20

QualityFlags(q) ==
    CASE q = "Draft" -> <<"-crf", NatToString(CRF_DRAFT), "-preset", "veryfast">>
      [] q = "Standard" -> <<"-crf", NatToString(CRF_STANDARD), "-preset", "medium">>
      [] q = "High" -> <<"-crf", NatToString(CRF_HIGH), "-preset", "slow">>

\* apply_quality that appends the flags after the output path
apply_quality_append(v, q) == v \o QualityFlags(q)

\* apply_quality(&mut args, quality): the value of args.0 afterwards.
\* pop().unwrap_or_default() yields "" when the list is empty.
apply_quality(v, q) ==
    LET out == IF Len(v) = 0 THEN "" ELSE v[Len(v)]
        rest == IF Len(v) = 0 THEN <<>> ELSE SubSeq(v, 1, Len(v) - 1)
    IN  (rest \o QualityFlags(q)) \o <<out>>

\* build_images_to_video_args(images_glob, fps, output_path) -> FfmpegArgs.0
build_images_to_video_args(images_glob, fps, output_path) ==
    << "-y", "-framerate", NatToString(fps), "-pattern_type", "glob",
       "-i", images_glob, "-s", "1920x1080", "-c:v", "libx264",
       "-pix_fmt", "yuv420p", output_path >>

(***************************************************************************)
(* Input domains                                                           *)
(***************************************************************************)
Times == {NaN} \cup {Secs(t) : t \in 0..MaxTime}
Timings == {SlideTiming(idx, t) : idx \in 0..MaxIdx, t \in Times}

SeqsUpTo(S, n) == UNION {[1..k -> S] : k \in 0..n}

\* overlay_relative_width values around both bounds of the check
Widths == {NaN} \cup {F(w) : w \in {0, MIN_WIDTH - 1, MIN_WIDTH, 25,
                                    MAX_WIDTH, MAX_WIDTH + 1}}

Request(w, ts, pos, fgk, q) ==
    [ pdf_path |-> "a.pdf", video_path |-> "b.mp4", output_path |-> "out.mp4",
      overlay_position |-> pos, overlay_relative_width |-> w,
      foreground_kind |-> fgk, quality |-> q,
      fps |-> None, output_width |-> None, output_height |-> None,
      expected_duration_sec |-> None, timings |-> ts ]

\* the request of tests::request_overlay_width_range, with other timings
BaseRequest(w, ts) == Request(w, ts, "TopRight", "Slides", "Standard")

Tokens == {"-y", "-crf", "in.mp4", "out.mp4"}

ArgLists ==
    SeqsUpTo(Tokens, MaxArgs)
    \cup {build_ffmpeg_args("main.mp4", "overlay.mp4", "out.mp4", F(20),
                            "TopRight", "Slides"),
          build_images_to_video_args("frames/*.png", 30, "slides.mp4")}

IdleValidate == vt_result = None /\ vr_result = None
IdleQuality == ffargs = <<>> /\ q_before = <<>> /\ quality = "Standard"
IdleHandler ==
    /\ dargs = None /\ result = None /\ trace = <<>> /\ calls = <<>>
    /\ fs = <<>> /\ fs0 = <<>> /\ tmp = None /\ i = 0 /\ list = <<>>

validateVars == <<vt_result, vr_result>>
qualityVars == <<ffargs, q_before, quality>>
handlerVars == <<dargs, result, trace, calls, fs, fs0, tmp, i, list>>

(***************************************************************************)
(* validate_timings called on every bounded timing sequence                *)
(***************************************************************************)
TimingsInit ==
    /\ \E ts \in SeqsUpTo(Timings, MaxLen) : req = BaseRequest(F(25), ts)
    /\ pc = "ready"
    /\ IdleValidate /\ IdleQuality /\ IdleHandler

CallValidateTimings ==
    /\ pc = "ready"
    /\ vt_result' = validate_timings(req.timings)
    /\ pc' = "done"
    /\ UNCHANGED <<req, vr_result, qualityVars, handlerVars>>

TimingsSpec == TimingsInit /\ [][CallValidateTimings]_vars

(***************************************************************************)
(* validate_request called on every bounded request                        *)
(***************************************************************************)
RequestInit ==
    /\ \E w \in Widths, ts \in SeqsUpTo(Timings, MaxReqLen) :
          req = BaseRequest(w, ts)
    /\ pc = "ready"
    /\ IdleValidate /\ IdleQuality /\ IdleHandler

CallValidateRequest ==
    /\ pc = "ready"
    /\ vr_result' = validate_request(req)
    /\ pc' = "done"
    /\ UNCHANGED <<req, vt_result, qualityVars, handlerVars>>

RequestSpec == RequestInit /\ [][CallValidateRequest]_vars

(***************************************************************************)
(* apply_quality called on every bounded argument list                     *)
(***************************************************************************)
QualityInit ==
    /\ ffargs \in ArgLists
    /\ q_before = ffargs
    /\ quality \in QualityProfile
    /\ pc = "ready"
    /\ req = BaseRequest(F(25), <<>>)
    /\ IdleValidate /\ IdleHandler

CallApplyQuality ==
    /\ pc = "ready"
    /\ ffargs' = apply_quality(ffargs, quality)
    /\ pc' = "done"
    /\ UNCHANGED <<req, validateVars, q_before, quality, handlerVars>>

QualitySpec == QualityInit /\ [][CallApplyQuality]_vars

(***************************************************************************)
(* Paths (std::path::Path), files and the external collaborators           *)
(***************************************************************************)
\* Path::parent(): None for the empty path and for a path ending in the root
Parent(p) ==
    IF Len(p) = 0 \/ p[Len(p)] = "/" THEN None ELSE SubSeq(p, 1, Len(p) - 1)

\* Path::join with a relative, single-component name
PathJoin(p, name) == Append(p, name)

\* to_string_lossy()
RECURSIVE PathToString(_)
PathToString(p) ==
    IF Len(p) = 0 THEN ""
    ELSE IF Len(p) = 1 THEN p[1]
    ELSE LET head == PathToString(SubSeq(p, 1, Len(p) - 1))
         IN  IF head = "/" THEN head \o p[Len(p)]
             ELSE (head \o "/") \o p[Len(p)]

File(kind, index, body) == [kind |-> kind, index |-> index, body |-> body]

Put(f, k, v) == [x \in (DOMAIN f) \cup {k} |-> IF x = k THEN v ELSE f[x]]

Exists(p) == p \in DOMAIN fs

\* std::io::Error rendered by e.to_string()
IoError == "io error"

\* ExitStatus of the encoder: success() is code = 0
ExitCodes == {0, 1}
StatusToString(code) == "exit status: " \o NatToString(code)

\* One entry of `trace`: a call to the Process Runner (Command::status: "spawn"
\* when the child is started, "exit" when status() returns) or to the
\* filesystem ("mkdir", "write"), with whether it succeeded.  The binary comes
\* from ffmpeg_path(), which only reads the environment and the configuration.
Event(ev, what, index, ok) == <<ev, what, index, ok>>

(***************************************************************************)
(* tauri_commands.rs: compose_video                                        *)
(***************************************************************************)
\* the tests' timing sequences of core.rs
SampleTimings ==
    { << >>,
      << SlideTiming(0, F(10)), SlideTiming(1, F(100)) >>,
      << SlideTiming(0, F(50)), SlideTiming(1, F(1000)), SlideTiming(2, F(2000)) >>,
      << SlideTiming(0, F(50)), SlideTiming(1, F(100)), SlideTiming(2, F(100)) >>,
      << SlideTiming(0, F(50)), SlideTiming(2, F(100)) >> }

ComposeInit ==
    /\ \E w \in Widths, ts \in SampleTimings, pos \in OverlayPosition,
          fgk \in ForegroundKind, q \in QualityProfile :
          req = Request(w, ts, pos, fgk, q)
    /\ pc = "validate"
    /\ fs = [p \in {<<"a.pdf">>, <<"b.mp4">>} |-> File("input", 0, <<>>)]
    /\ fs0 = fs
    /\ dargs = None /\ result = None /\ trace = <<>> /\ calls = <<>>
    /\ tmp = None /\ i = 0 /\ list = <<>>
    /\ IdleValidate /\ IdleQuality

\* compose_video that starts the encoder whatever validate_request returned
CV_Validate_ignored ==
    /\ pc = "validate"
    /\ pc' = "spawn"
    /\ UNCHANGED <<req, validateVars, qualityVars, handlerVars>>

\* lines 77-78: validate_request(&req).map_err(|e| e.to_string())?
CV_Validate ==
    /\ pc = "validate"
    /\ LET v == validate_request(req)
       IN  IF v = Ok
           THEN pc' = "spawn" /\ UNCHANGED result
           ELSE pc' = "done" /\ result' = Err(ErrorToString(v[2]))
    /\ UNCHANGED <<req, validateVars, qualityVars, dargs, trace, calls, fs,
                   fs0, tmp, i, list>>

\* lines 80-97: build the arguments, apply the quality, start the encoder
CV_Spawn ==
    /\ pc = "spawn"
    /\ LET built == build_ffmpeg_args(req.video_path, req.pdf_path,
                                      req.output_path,
                                      req.overlay_relative_width,
                                      req.overlay_position,
                                      req.foreground_kind)
           args == apply_quality(built, req.quality)
       IN  /\ q_before' = built
           /\ ffargs' = args
           /\ calls' = Append(calls, <<"-progress", "pipe:2">> \o args)
    /\ quality' = req.quality
    /\ \E started \in BOOLEAN :
          /\ trace' = Append(trace, Event("spawn", "compose", 0, started))
          /\ IF started
             THEN pc' = "wait" /\ UNCHANGED result
             ELSE pc' = "done" /\ result' = Err(IoError)
    /\ UNCHANGED <<req, validateVars, dargs, fs, fs0, tmp, i, list>>

\* lines 97-101: the encoder has exited
CV_Exit ==
    /\ pc = "wait"
    /\ \E code \in ExitCodes :
          /\ trace' = Append(trace, Event("exit", "compose", 0, code = 0))
          /\ IF code = 0
             THEN /\ result' = Ok
                  /\ fs' = Put(fs, <<req.output_path>>, File("video", 0, <<>>))
             ELSE /\ result' = Err("ffmpeg failed with status: "
                                       \o StatusToString(code))
                  /\ \E partial \in BOOLEAN :
                        fs' = IF partial
                              THEN Put(fs, <<req.output_path>>,
                                       File("partial", 0, <<>>))
                              ELSE fs
    /\ pc' = "done"
    /\ UNCHANGED <<req, validateVars, qualityVars, dargs, calls, fs0, tmp, i,
                   list>>

ComposeNext == CV_Validate \/ CV_Spawn \/ CV_Exit

ComposeSpec == ComposeInit /\ [][ComposeNext]_vars

(***************************************************************************)
(* tauri_commands.rs: build_slides_video_with_durations                    *)
(***************************************************************************)
FramesDir == <<"frames">>
OutputPaths == { << >>, <<"/">>, <<"out.mp4">>, <<"/", "work", "out.mp4">> }
Durations == {F(200), F(350)}

\* Path::new(&args.frames_dir).join(format!("{:05}.png", i as u32))
SlidePath(k) == PathJoin(dargs.frames_dir, Pad5(AsU32(k)) \o ".png")

\* tmp.join(format!("seg_{i:05}.mp4"))
SegPath(k) == PathJoin(tmp, ("seg_" \o Pad5(k)) \o ".mp4")

\* tmp.join("concat.txt")
ListPath == PathJoin(tmp, "concat.txt")

\* the segment the encoder writes for slide k when it succeeds
SegmentFile(k) ==
    File("video", k, <<PathToString(SlidePath(k)),
                       FormatF64(dargs.durations[k + 1])>>)

\* the segment command with the output file before the input options
SegmentArgs_input_last(k) ==
    << "-y", PathToString(SegPath(k)), "-loop", "1", "-t",
       FormatF64(dargs.durations[k + 1]), "-s", "1920x1080", "-r", "30",
       "-c:v", "libx264", "-pix_fmt", "yuv420p",
       "-i", PathToString(SlidePath(k)) >>

SegmentArgs(k) ==
    << "-y", "-loop", "1", "-t", FormatF64(dargs.durations[k + 1]),
       "-i", PathToString(SlidePath(k)), "-s", "1920x1080", "-r", "30",
       "-c:v", "libx264", "-pix_fmt", "yuv420p", PathToString(SegPath(k)) >>

ConcatArgs ==
    << "-y", "-f", "concat", "-safe", "0", "-i", PathToString(ListPath),
       "-c", "copy", PathToString(dargs.output_path) >>

Init ==
    /\ \E ds \in SeqsUpTo(Durations, MaxSlides), out \in OutputPaths :
          dargs = [frames_dir |-> FramesDir, durations |-> ds,
                   output_path |-> out]
    /\ \E present \in SUBSET (0..(MaxSlides - 1)) :
          fs = [p \in {PathJoin(FramesDir, Pad5(k) \o ".png") : k \in present}
                  |-> File("png", 0, <<>>)]
    /\ fs0 = fs
    /\ pc = "derive"
    /\ result = None /\ trace = <<>> /\ calls = <<>>
    /\ tmp = None /\ i = 0 /\ list = <<>>
    /\ req = BaseRequest(F(25), <<>>)
    /\ IdleValidate /\ IdleQuality

unchangedOutside == <<req, validateVars, qualityVars, dargs, fs0>>

\* lines 166-169: the segments directory beside the output path
BSVD_DeriveTmp ==
    /\ pc = "derive"
    /\ IF Parent(dargs.output_path) = None
       THEN /\ result' = Err("invalid output path")
            /\ pc' = "done"
            /\ UNCHANGED tmp
       ELSE /\ tmp' = PathJoin(Parent(dargs.output_path), "segments")
            /\ pc' = "mkdir"
            /\ UNCHANGED result
    /\ UNCHANGED <<unchangedOutside, trace, calls, fs, i, list>>

\* lines 170-172: create_dir_all(&tmp)?, then `list` starts empty
BSVD_CreateDir ==
    /\ pc = "mkdir"
    /\ \E ok \in BOOLEAN :
          /\ trace' = Append(trace, Event("mkdir", "segments", 0, ok))
          /\ IF ok
             THEN /\ fs' = Put(fs, tmp, File("dir", 0, <<>>))
                  /\ list' = <<>>
                  /\ i' = 0
                  /\ pc' = "check"
                  /\ UNCHANGED result
             ELSE /\ result' = Err(IoError)
                  /\ pc' = "done"
                  /\ UNCHANGED <<fs, i, list>>
    /\ UNCHANGED <<unchangedOutside, calls, tmp>>

\* the loop head that proceeds to the encode without the exists() test
BSVD_CheckSlide_unchecked ==
    /\ pc = "check"
    /\ i < Len(dargs.durations)
    /\ pc' = "spawn"
    /\ UNCHANGED <<unchangedOutside, result, trace, calls, fs, tmp, i, list>>

\* lines 173-181: next index of the loop; its slide image must exist
BSVD_CheckSlide ==
    /\ pc = "check"
    /\ i < Len(dargs.durations)
    /\ IF ~Exists(SlidePath(i))
       THEN /\ result' = Err("missing slide image: "
                                \o PathToString(SlidePath(i)))
            /\ pc' = "done"
       ELSE /\ pc' = "spawn"
            /\ UNCHANGED result
    /\ UNCHANGED <<unchangedOutside, trace, calls, fs, tmp, i, list>>

\* the loop that stops one index early
BSVD_LoopDone_early ==
    /\ pc = "check"
    /\ i + 1 >= Len(dargs.durations)
    /\ pc' = "manifest"
    /\ UNCHANGED <<unchangedOutside, result, trace, calls, fs, tmp, i, list>>

\* line 173: the iterator is exhausted
BSVD_LoopDone ==
    /\ pc = "check"
    /\ i = Len(dargs.durations)
    /\ pc' = "manifest"
    /\ UNCHANGED <<unchangedOutside, result, trace, calls, fs, tmp, i, list>>

\* lines 182-204: build the segment command and start the encoder
BSVD_SpawnSegment ==
    /\ pc = "spawn"
    /\ calls' = Append(calls, SegmentArgs(i))
    /\ \E started \in BOOLEAN :
          /\ trace' = Append(trace, Event("spawn", "segment", i, started))
          /\ IF started
             THEN pc' = "wait" /\ UNCHANGED result
             ELSE pc' = "done" /\ result' = Err(IoError)
    /\ UNCHANGED <<unchangedOutside, fs, tmp, i, list>>

\* the exit handling that ignores the status and goes on with the next slide
BSVD_SegmentExit_ignored ==
    /\ pc = "wait"
    /\ \E code \in ExitCodes :
          /\ trace' = Append(trace, Event("exit", "segment", i, code = 0))
          /\ fs' = IF code = 0 THEN Put(fs, SegPath(i), SegmentFile(i)) ELSE fs
    /\ list' = Append(list, ("file '" \o PathToString(SegPath(i))) \o "'")
    /\ i' = i + 1
    /\ pc' = "check"
    /\ UNCHANGED <<unchangedOutside, result, calls, tmp>>

\* the exit handling that puts the new line in front of `list`
BSVD_SegmentExit_prepend ==
    /\ pc = "wait"
    /\ \E code \in ExitCodes :
          /\ trace' = Append(trace, Event("exit", "segment", i, code = 0))
          /\ IF code = 0
             THEN /\ fs' = Put(fs, SegPath(i), SegmentFile(i))
                  /\ list' = <<("file '" \o PathToString(SegPath(i))) \o "'">>
                                \o list
                  /\ i' = i + 1
                  /\ pc' = "check"
                  /\ UNCHANGED result
             ELSE /\ fs' = fs
                  /\ result' = Err("ffmpeg failed creating segment "
                                       \o NatToString(i))
                  /\ pc' = "done"
                  /\ UNCHANGED <<i, list>>
    /\ UNCHANGED <<unchangedOutside, calls, tmp>>

\* lines 201-208: the encoder has exited; on success one line joins `list`
BSVD_SegmentExit ==
    /\ pc = "wait"
    /\ \E code \in ExitCodes :
          /\ trace' = Append(trace, Event("exit", "segment", i, code = 0))
          /\ IF code = 0
             THEN /\ fs' = Put(fs, SegPath(i), SegmentFile(i))
                  /\ list' = Append(list, ("file '" \o PathToString(SegPath(i)))
                                             \o "'")
                  /\ i' = i + 1
                  /\ pc' = "check"
                  /\ UNCHANGED result
             ELSE /\ \E partial \in BOOLEAN :
                        fs' = IF partial
                              THEN Put(fs, SegPath(i), File("partial", i, <<>>))
                              ELSE fs
                  /\ result' = Err("ffmpeg failed creating segment "
                                       \o NatToString(i))
                  /\ pc' = "done"
                  /\ UNCHANGED <<i, list>>
    /\ UNCHANGED <<unchangedOutside, calls, tmp>>

\* lines 211-212: std::fs::write(&list_path, list)?
BSVD_WriteManifest ==
    /\ pc = "manifest"
    /\ \E ok \in BOOLEAN :
          /\ trace' = Append(trace, Event("write", "concat.txt", 0, ok))
          /\ IF ok
             THEN /\ fs' = Put(fs, ListPath, File("text", 0, list))
                  /\ pc' = "concat"
                  /\ UNCHANGED result
             ELSE /\ result' = Err(IoError)
                  /\ pc' = "done"
                  /\ UNCHANGED fs
    /\ UNCHANGED <<unchangedOutside, calls, tmp, i, list>>

\* lines 213-228: build the concatenation command and start the encoder
BSVD_SpawnConcat ==
    /\ pc = "concat"
    /\ calls' = Append(calls, ConcatArgs)
    /\ \E started \in BOOLEAN :
          /\ trace' = Append(trace, Event("spawn", "concat", 0, started))
          /\ IF started
             THEN pc' = "concat_wait" /\ UNCHANGED result
             ELSE pc' = "done" /\ result' = Err(IoError)
    /\ UNCHANGED <<unchangedOutside, fs, tmp, i, list>>

\* lines 225-232: the concatenation has exited
BSVD_ConcatExit ==
    /\ pc = "concat_wait"
    /\ \E code \in ExitCodes :
          /\ trace' = Append(trace, Event("exit", "concat", 0, code = 0))
          /\ IF code = 0
             THEN /\ result' = Ok
                  /\ fs' = Put(fs, dargs.output_path,
                               File("video", 0, fs[ListPath].body))
             ELSE /\ result' = Err("ffmpeg concat failed")
                  /\ \E partial \in BOOLEAN :
                        fs' = IF partial
                              THEN Put(fs, dargs.output_path,
                                       File("partial", 0, <<>>))
                              ELSE fs
    /\ pc' = "done"
    /\ UNCHANGED <<unchangedOutside, calls, tmp, i, list>>

Next ==
    \/ BSVD_DeriveTmp
    \/ BSVD_CreateDir
    \/ BSVD_CheckSlide
    \/ BSVD_LoopDone
    \/ BSVD_SpawnSegment
    \/ BSVD_SegmentExit
    \/ BSVD_WriteManifest
    \/ BSVD_SpawnConcat
    \/ BSVD_ConcatExit

Spec == Init /\ [][Next]_vars

(***************************************************************************)
(* Properties of the pure functions                                        *)
(***************************************************************************)
ContiguousIndices(ts) == \A k \in 1..Len(ts) : ts[k].slide_index = k - 1

StrictlyIncreasing(ts) ==
    \A k \in 1..(Len(ts) - 1) :
        /\ ~ts[k].time_seconds.nan /\ ~ts[k + 1].time_seconds.nan
        /\ ts[k].time_seconds.v < ts[k + 1].time_seconds.v

SomePairNotIncreasing(ts) ==
    \E k \in 1..(Len(ts) - 1) :
        /\ ~ts[k].time_seconds.nan /\ ~ts[k + 1].time_seconds.nan
        /\ ts[k].time_seconds.v >= ts[k + 1].time_seconds.v

ExpectedFlags(q) ==
    CASE q = "Draft" -> <<"-crf", "32", "-preset", "veryfast">>
      [] q = "Standard" -> <<"-crf", "26", "-preset", "medium">>
      [] q = "High" -> <<"-crf", "20", "-preset", "slow">>

\* C5 (as stated): for every argument list, whatever its length, apply_quality
\* inserts exactly the four elements -crf <factor> -preset <preset> of the
\* profile immediately before the final element, which stays last, and keeps
\* every other element in place.
C5_AnyLength ==
    pc = "done" =>
        LET n == Len(q_before)
        IN  /\ Len(ffargs) = n + 4
            /\ \A k \in 1..(n - 1) : ffargs[k] = q_before[k]
            /\ n > 0 => ffargs[n + 4] = q_before[n]
            /\ LET at == IF n > 0 THEN n ELSE 1
               IN  SubSeq(ffargs, at, at + 3) = ExpectedFlags(quality)

\* C5 (amended): for every NON-EMPTY argument list apply_quality leaves the
\* final element unchanged and last, inserts exactly the four elements
\* -crf <factor> -preset <preset> (32/veryfast, 26/medium, 20/slow)
\* immediately before it and keeps every other element in place and order.
C5_NonEmpty ==
    (pc = "done" /\ Len(q_before) > 0) =>
        LET n == Len(q_before)
        IN  /\ Len(ffargs) = n + 4
            /\ \A k \in 1..(n - 1) : ffargs[k] = q_before[k]
            /\ ffargs[n + 4] = q_before[n]
            /\ SubSeq(ffargs, n, n + 3) = ExpectedFlags(quality)

C5_Witness ==
    /\ pc = "done"
    /\ quality = "Draft"
    /\ Len(q_before) = 28
    /\ q_before[28] = "out.mp4"
    /\ ffargs[32] = "out.mp4"
    /\ ffargs[29] = "32"

\* C6 (as stated): every sequence with time[i] >= time[i+1] for some i is
\* rejected with NonIncreasingTimings.
C6_AllSequences ==
    (pc = "done" /\ SomePairNotIncreasing(req.timings)) =>
        vt_result = Err(NonIncreasingTimings)

\* C6 (amended): every sequence whose slide_index values equal their positions
\* and with time[i] >= time[i+1] for some i is rejected with
\* NonIncreasingTimings.
C6_ContiguousSequences ==
    (pc = "done" /\ ContiguousIndices(req.timings)
        /\ SomePairNotIncreasing(req.timings)) =>
        vt_result = Err(NonIncreasingTimings)

C6_Witness ==
    /\ pc = "done"
    /\ Len(req.timings) = 3
    /\ ContiguousIndices(req.timings)
    /\ req.timings[2].time_seconds = req.timings[3].time_seconds
    /\ req.timings[1].time_seconds.v < req.timings[2].time_seconds.v
    /\ ~req.timings[2].time_seconds.nan
    /\ vt_result = Err(NonIncreasingTimings)

\* C7: every non-empty sequence in which some slide_index differs from its
\* zero-based position is rejected with InvalidSlideIndices, whatever the
\* time values are.
C7_InvalidIndices ==
    (pc = "done" /\ Len(req.timings) > 0 /\ ~ContiguousIndices(req.timings)) =>
        vt_result = Err(InvalidSlideIndices)

C7_Witness ==
    /\ pc = "done"
    /\ Len(req.timings) = 2
    /\ req.timings[1].slide_index = 0
    /\ req.timings[2].slide_index = 2
    /\ StrictlyIncreasing(req.timings)
    /\ vt_result = Err(InvalidSlideIndices)

\* C8: validate_timings succeeds exactly on the non-empty sequences whose
\* slide_index values are 0..N-1 in order and whose times are strictly
\* increasing; every other sequence yields an error, the empty one
\* EmptyTimings.
C8_OkIffValid ==
    pc = "done" =>
        /\ vt_result = Ok <=>
              (Len(req.timings) > 0 /\ ContiguousIndices(req.timings)
                  /\ StrictlyIncreasing(req.timings))
        /\ vt_result # Ok =>
              vt_result \in {Err(EmptyTimings), Err(InvalidSlideIndices),
                             Err(NonIncreasingTimings)}
        /\ Len(req.timings) = 0 => vt_result = Err(EmptyTimings)

C8_Witness ==
    /\ pc = "done"
    /\ Len(req.timings) = 3
    /\ ContiguousIndices(req.timings)
    /\ StrictlyIncreasing(req.timings)
    /\ vt_result = Ok

RequestIsValid(r) ==
    /\ ~r.overlay_relative_width.nan
    /\ r.overlay_relative_width.v >= 5
    /\ r.overlay_relative_width.v <= 50
    /\ Len(r.timings) > 0
    /\ ContiguousIndices(r.timings)
    /\ StrictlyIncreasing(r.timings)

ValidationMessages ==
    { "timings must not be empty",
      "timings must be strictly increasing by time",
      "slide indices must start at 0 and be contiguous" }
    \cup { "overlay_relative_width must be within [0.05, 0.25], got " \o m :
              m \in {"0", "0.04", "0.51", "NaN"} }

\* C1: compose_video starts the encoder only after validate_request has
\* succeeded; for a request that fails validation it returns the validation
\* error, the Process Runner is never invoked and nothing else outside the
\* handler (the filesystem) is touched.
C1_ValidateBeforeSpawn ==
    /\ (trace # <<>> \/ calls # <<>> \/ fs # fs0) => RequestIsValid(req)
    /\ (pc = "done" /\ ~RequestIsValid(req)) =>
          /\ result[1] = "Err"
          /\ result[2] \in ValidationMessages
          /\ trace = <<>> /\ calls = <<>> /\ fs = fs0

C1_Witness ==
    /\ pc = "done"
    /\ req.overlay_relative_width = F(25)
    /\ Len(req.timings) = 3
    /\ req.timings[2].time_seconds = req.timings[3].time_seconds
    /\ result = Err("timings must be strictly increasing by time")
    /\ calls = <<>>

(***************************************************************************)
(* Properties of build_slides_video_with_durations                         *)
(***************************************************************************)
NSlides == Len(dargs.durations)

IsProcEvent(e) == e[1] \in {"spawn", "exit"}
ProcEvents(tr) == SelectSeq(tr, IsProcEvent)

RECURSIVE SegmentBuilds(_)
\* segment builds 0..n-1, each started and completed before the next starts
SegmentBuilds(n) ==
    IF n = 0 THEN <<>>
    ELSE SegmentBuilds(n - 1)
            \o << <<"spawn", "segment", n - 1, TRUE>>,
                  <<"exit", "segment", n - 1, TRUE>> >>

ConcatBuild == << <<"spawn", "concat", 0, TRUE>>, <<"exit", "concat", 0, TRUE>> >>

InTrace(e) == \E j \in 1..Len(trace) : trace[j] = e

ImagePresent(k) == <<"frames", ("0000" \o Digits[k + 1]) \o ".png">> \in DOMAIN fs0
AllImagesPresent == \A k \in 0..(NSlides - 1) : ImagePresent(k)
NoEncoderFailure == \A j \in 1..Len(trace) : IsProcEvent(trace[j]) => trace[j][4]
NoFilesystemFailure ==
    /\ Len(dargs.output_path) > 0
    /\ dargs.output_path[Len(dargs.output_path)] # "/"
    /\ \A j \in 1..Len(trace) : ~IsProcEvent(trace[j]) => trace[j][4]

ExactlyNPlusOneBuilds ==
    /\ ProcEvents(trace) = SegmentBuilds(NSlides) \o ConcatBuild
    /\ Len(calls) = NSlides + 1

\* C2 (as stated): whenever all slide images exist and every encoder
\* invocation succeeds, the finished operation has invoked the Process Runner
\* exactly N+1 times: segments 0..N-1 in order, one at a time, then one
\* concatenation.
C2_AllImagesAllEncodes ==
    (pc = "done" /\ AllImagesPresent /\ NoEncoderFailure) =>
        ExactlyNPlusOneBuilds

\* C2 (amended): whenever all slide images exist, every encoder invocation
\* succeeds, the output path has a parent directory, and the creation of the
\* segments directory and the write of the manifest succeed, the finished
\* operation has invoked the Process Runner exactly N+1 times: segments
\* 0..N-1 in increasing order, each started after the previous one completed
\* and none built twice, then exactly one concatenation.
C2_NoFailureAtAll ==
    (pc = "done" /\ AllImagesPresent /\ NoEncoderFailure
        /\ NoFilesystemFailure) =>
        ExactlyNPlusOneBuilds

C2_Witness ==
    /\ pc = "done"
    /\ dargs.durations = <<F(200), F(350)>>
    /\ result = Ok
    /\ Len(calls) = 3
    /\ trace[Len(trace)] = <<"exit", "concat", 0, TRUE>>

FirstMissing(m) ==
    /\ m < NSlides
    /\ ~ImagePresent(m)
    /\ \A k \in 0..(m - 1) :
          ImagePresent(k) /\ InTrace(<<"exit", "segment", k, TRUE>>)

MissingSlideOutcome(m) ==
    /\ result = Err(("missing slide image: frames/0000" \o Digits[m + 1])
                        \o ".png")
    /\ ProcEvents(trace) = SegmentBuilds(m)
    /\ Len(calls) = m
    /\ \A j \in 1..Len(trace) : trace[j][1] # "write"
    /\ \A p \in DOMAIN fs : fs[p].kind # "text"

\* C3 (as stated): if the image of index m is missing while the images and
\* encodes of all lower indices succeeded, the operation fails with the
\* missing-slide-image error naming the expected path; segments 0..m-1 were
\* each built once, nothing was invoked for any index >= m, no manifest was
\* written and no concatenation invoked.
C3_MissingImage ==
    \A m \in 0..(NSlides - 1) :
        (pc = "done" /\ FirstMissing(m)) => MissingSlideOutcome(m)

\* C3 (amended): the same, provided the segments directory could be derived
\* from the output path and was created.
C3_MissingImageAfterSetup ==
    \A m \in 0..(NSlides - 1) :
        (pc = "done" /\ FirstMissing(m)
            /\ InTrace(<<"mkdir", "segments", 0, TRUE>>)) =>
            MissingSlideOutcome(m)

C3_Witness ==
    /\ pc = "done"
    /\ NSlides = 2
    /\ ImagePresent(0) /\ ~ImagePresent(1)
    /\ result = Err("missing slide image: frames/00001.png")
    /\ trace = << <<"mkdir", "segments", 0, TRUE>>,
                  <<"spawn", "segment", 0, TRUE>>,
                  <<"exit", "segment", 0, TRUE>> >>

\* C4: once the encoder reports non-success for segment m the operation is
\* over with an error naming m: that exit is the last call ever made (no
\* retry, no later segment, no concatenation), no manifest is written, and
\* the segment files produced for 0..m-1 are still there, unmodified.
C4_SegmentFailureAborts ==
    \A m \in 0..(NSlides - 1) :
        InTrace(<<"exit", "segment", m, FALSE>>) =>
            /\ pc = "done"
            /\ result = Err("ffmpeg failed creating segment " \o Digits[m + 1])
            /\ trace[Len(trace)] = <<"exit", "segment", m, FALSE>>
            /\ ProcEvents(trace) =
                  SegmentBuilds(m) \o << <<"spawn", "segment", m, TRUE>>,
                                         <<"exit", "segment", m, FALSE>> >>
            /\ Len(calls) = m + 1
            /\ \A j \in 1..Len(trace) : trace[j][1] # "write"
            /\ \A p \in DOMAIN fs : fs[p].kind # "text"
            /\ \A k \in 0..(m - 1) :
                  /\ SegPath(k) \in DOMAIN fs
                  /\ fs[SegPath(k)] = SegmentFile(k)

C4_Witness ==
    /\ pc = "done"
    /\ NSlides = 3
    /\ InTrace(<<"exit", "segment", 1, FALSE>>)
    /\ result = Err("ffmpeg failed creating segment 1")
    /\ fs[SegPath(0)].kind = "video"

\* C10: the manifest is written only after all N segment builds have
\* succeeded and before the concatenation is invoked, and it holds exactly N
\* lines, line k naming the segment file of index k.
C10_ManifestAfterSegments ==
    /\ \A j \in 1..Len(trace) :
          /\ trace[j][1] = "write" =>
                ProcEvents(SubSeq(trace, 1, j - 1)) = SegmentBuilds(NSlides)
          /\ trace[j][2] = "concat" =>
                \E w \in 1..(j - 1) : trace[w] = <<"write", "concat.txt", 0, TRUE>>
    /\ \A p \in DOMAIN fs :
          fs[p].kind = "text" =>
              /\ p = Append(tmp, "concat.txt")
              /\ Len(fs[p].body) = NSlides
              /\ \A k \in 0..(NSlides - 1) :
                    fs[p].body[k + 1] =
                        ((("file '" \o PathToString(tmp)) \o "/seg_0000")
                            \o Digits[k + 1]) \o ".mp4'"

C10_Witness ==
    /\ pc = "concat_wait"
    /\ NSlides = 3
    /\ dargs.output_path = <<"/", "work", "out.mp4">>
    /\ fs[<<"/", "work", "segments", "concat.txt">>].body =
          << "file '/work/segments/seg_00000.mp4'",
             "file '/work/segments/seg_00001.mp4'",
             "file '/work/segments/seg_00002.mp4'" >>

(***************************************************************************)
(* tauri_commands.rs: build_slides_video                                   *)
(***************************************************************************)
SlidesInit ==
    /\ \E f \in {1, 30}, out \in {"", "slides.mp4", "/work/slides.mp4"} :
          dargs = [frames_dir |-> "frames", fps |-> f, output_path |-> out]
    /\ pc = "bsv_spawn"
    /\ result = None /\ trace = <<>> /\ calls = <<>>
    /\ fs = <<>> /\ fs0 = <<>> /\ tmp = None /\ i = 0 /\ list = <<>>
    /\ req = BaseRequest(F(25), <<>>)
    /\ IdleValidate /\ IdleQuality

\* lines 131-136: glob, argument list, start of the encoder
BSV_Spawn ==
    /\ pc = "bsv_spawn"
    /\ LET glob == dargs.frames_dir \o "/**/*.png"
           ff == build_images_to_video_args(glob, dargs.fps, dargs.output_path)
       IN  calls' = Append(calls, ff)
    /\ \E started \in BOOLEAN :
          /\ trace' = Append(trace, Event("spawn", "images", 0, started))
          /\ IF started
             THEN pc' = "bsv_wait" /\ UNCHANGED result
             ELSE pc' = "done" /\ result' = Err(IoError)
    /\ UNCHANGED <<unchangedOutside, fs, tmp, i, list>>

\* lines 133-140: the encoder has exited
BSV_Exit ==
    /\ pc = "bsv_wait"
    /\ \E code \in ExitCodes :
          /\ trace' = Append(trace, Event("exit", "images", 0, code = 0))
          /\ IF code = 0
             THEN /\ result' = Ok
                  /\ fs' = Put(fs, <<dargs.output_path>>, File("video", 0, <<>>))
             ELSE /\ result' = Err("ffmpeg failed with status: "
                                       \o StatusToString(code))
                  /\ UNCHANGED fs
    /\ pc' = "done"
    /\ UNCHANGED <<unchangedOutside, calls, tmp, i, list>>

(***************************************************************************)
(* tauri_commands.rs: probe_video_duration                                 *)
(***************************************************************************)
\* What the encoder may print on stderr, by the shape the parser looks at:
\* the first line holding "Duration:" (if any) and the f64 values its
\* ':'-separated components parse to (unwrap_or(0.0) for the unparsable).
StderrSamples ==
    { [duration |-> FALSE, comps |-> <<>>],
      [duration |-> TRUE, comps |-> <<F(0), F(100), F(250)>>],
      [duration |-> TRUE, comps |-> <<F(0), F(0)>>],
      [duration |-> TRUE, comps |-> <<F(100), F(0), F(0)>>] }

ProbeInit ==
    /\ \E v \in {"b.mp4", "/work/b.mp4"} : dargs = [video_path |-> v]
    /\ pc = "probe"
    /\ result = None /\ trace = <<>> /\ calls = <<>>
    /\ fs = <<>> /\ fs0 = <<>> /\ tmp = None /\ i = 0 /\ list = <<>>
    /\ req = BaseRequest(F(25), <<>>)
    /\ IdleValidate /\ IdleQuality

\* lines 255-258: Command::new(ffmpeg_path()).args(["-i", &video_path]).output()
PVD_Spawn ==
    /\ pc = "probe"
    /\ calls' = Append(calls, <<"-i", dargs.video_path>>)
    /\ \E started \in BOOLEAN :
          /\ trace' = Append(trace, Event("spawn", "probe", 0, started))
          /\ IF started
             THEN pc' = "probe_wait" /\ UNCHANGED result
             ELSE pc' = "done" /\ result' = Err(IoError)
    /\ UNCHANGED <<unchangedOutside, fs, tmp, i, list>>

\* lines 259-273: the Duration line of the captured stderr
PVD_Output ==
    /\ pc = "probe_wait"
    /\ \E code \in ExitCodes, err \in StderrSamples :
          /\ trace' = Append(trace, Event("exit", "probe", 0, code = 0))
          /\ IF err.duration /\ Len(err.comps) = 3
             THEN result' = <<"Ok", F((err.comps[1].v * 3600
                                        + err.comps[2].v * 60)
                                        + err.comps[3].v)>>
             ELSE result' = Err("failed to detect duration; ensure ffmpeg is accessible")
    /\ pc' = "done"
    /\ UNCHANGED <<unchangedOutside, calls, fs, tmp, i, list>>

(***************************************************************************)
(* Any one of the four commands that hand an argument list to the encoder  *)
(***************************************************************************)
\* compose_video is the running handler (its "spawn"/"wait" positions share
\* their names with those of build_slides_video_with_durations)
InCompose ==
    \/ pc = "validate"
    \/ pc = "spawn" /\ trace = <<>>
    \/ pc = "wait" /\ trace # <<>> /\ trace[1][2] = "compose"

InDurations ==
    \/ pc \in {"derive", "mkdir", "check", "manifest", "concat", "concat_wait"}
    \/ pc \in {"spawn", "wait"} /\ trace # <<>> /\ trace[1][1] = "mkdir"

RunnerInit == ComposeInit \/ Init \/ SlidesInit \/ ProbeInit

RunnerNext ==
    \/ InCompose /\ ComposeNext
    \/ InDurations /\ Next
    \/ BSV_Spawn
    \/ BSV_Exit
    \/ PVD_Spawn
    \/ PVD_Output

RunnerSpec == RunnerInit /\ [][RunnerNext]_vars

(***************************************************************************)
(* Properties of the argument lists                                        *)
(***************************************************************************)
Last(v) == v[Len(v)]

IsSpawn(e) == e[1] = "spawn"
Spawns == SelectSeq(trace, IsSpawn)

\* the output file path(s) of the call started by spawn event e
OutputPathOf(e) ==
    IF e[2] = "compose" THEN {req.output_path}
    ELSE IF e[2] = "images" THEN {dargs.output_path}
    ELSE IF e[2] = "segment"
         THEN {(((PathToString(tmp) \o "/seg_0000") \o Digits[e[3] + 1]) \o ".mp4")}
    ELSE IF e[2] = "concat" THEN {PathToString(dargs.output_path)}
    ELSE {}   \* the probe reads its input and writes no file

ComposeListsEndInOutput ==
    (Len(Spawns) > 0 /\ Spawns[1][2] = "compose") =>
        /\ Len(q_before) > 0 /\ Last(q_before) = req.output_path
        /\ Len(ffargs) = Len(q_before) + 4 /\ Last(ffargs) = req.output_path
        /\ calls[1] = <<"-progress", "pipe:2">> \o ffargs

\* C11 (as stated): every argument list handed to the Process Runner has its
\* output file path as its last element.
C11_EveryList ==
    /\ Len(calls) = Len(Spawns)
    /\ \A k \in 1..Len(calls) :
          Len(calls[k]) > 0 /\ Last(calls[k]) \in OutputPathOf(Spawns[k])
    /\ ComposeListsEndInOutput

\* C11 (amended): every argument list handed to the Process Runner by
\* compose_video, build_slides_video and build_slides_video_with_durations
\* has its output file path as its last element: the overlay list before and
\* after apply_quality and with the progress flags in front, the
\* image-sequence list, every segment command (that segment's file) and the
\* concatenation command (the requested output path).  The list of
\* probe_video_duration, -i <video>, ends in its input.
C11_EncoderLists ==
    /\ Len(calls) = Len(Spawns)
    /\ \A k \in 1..Len(calls) :
          Spawns[k][2] # "probe" =>
              Len(calls[k]) > 0 /\ Last(calls[k]) \in OutputPathOf(Spawns[k])
    /\ ComposeListsEndInOutput

C11_Witness ==
    /\ pc = "done"
    /\ result = Ok
    /\ Len(calls) = 3
    /\ Last(calls[1]) = "/work/segments/seg_00000.mp4"
    /\ Last(calls[2]) = "/work/segments/seg_00001.mp4"
    /\ Last(calls[3]) = "/work/out.mp4"

====
